---- MODULE Spec2Model ----
(***************************************************************************)
(* Model of the performance-metrics harness                                *)
(* (performance-metrics/src/main.rs): the registry TEST_LIST, the          *)
(* timeout-supervised executor run_test_with_timetout, the worker thread   *)
(* it spawns (PerformanceTest::run under catch_unwind), and the driver     *)
(* loop of main that assembles and prints the MetricsReport.               *)
(*                                                                         *)
(* Time is counted in whole seconds by `clock` while the driver is blocked *)
(* in recv_timeout.  recv_timeout is modelled by its contract: it returns  *)
(* the first message queued before the timeout expires, Disconnected when  *)
(* the queue is empty and the sender is gone, and Timeout at the instant   *)
(* the timeout expires with nothing queued.                                *)
(*                                                                         *)
(* Specifications:                                                         *)
(*   Spec         a whole run of main over a registry built from Catalog,  *)
(*                every write to stdout succeeding;                        *)
(*   LiveSpec     Spec with the driver and the clock weakly fair;          *)
(*   StdoutSpec   Spec plus the runs in which a println! panics;           *)
(*   TimeoutSpec  calc_timeout and the start of the bounded wait, over     *)
(*                small and large u32 controls;                            *)
(*   StatSpec     the reduction at the end of run(), over every short      *)
(*                vector of samples;                                       *)
(*   ConstSpec    the loop of main over registries of constant probes.     *)
(***************************************************************************)
EXTENDS Integers, Sequences, FiniteSets, TLC

\* ------------------------------------------------------------------ bounds
\* Number of m.insert(..) calls made while TEST_LIST is built.
MaxInsert == 2

\* ------------------------------------------------------- program constants
\* "20s is added for each iteration of the test" (calc_timeout).
SetupAllowance == 20

\* Longest sample vector the statistics are applied to on their own.
MaxSamples == 3

\* ------------------------------------------------------------- f64 values
\* An f64 is modelled exactly: a reduced fraction n/d, the square root of a
\* reduced fraction that has no rational root, or NaN.
RECURSIVE Gcd(_, _)
Gcd(a, b) == IF b = 0 THEN a ELSE Gcd(b, a % b)

Abs(x) == IF x < 0 THEN -x ELSE x

NaN == [k |-> "nan", n |-> 0, d |-> 1]

Rat(num, den) ==
    LET g == Gcd(Abs(num), den)
    IN  IF num = 0 THEN [k |-> "num", n |-> 0, d |-> 1]
        ELSE [k |-> "num", n |-> num \div g, d |-> den \div g]

F64(i) == Rat(i, 1)

IsNaN(x) == x.k = "nan"

FAdd(x, y) == IF IsNaN(x) \/ IsNaN(y) THEN NaN
              ELSE Rat(x.n * y.d + y.n * x.d, x.d * y.d)

FSub(x, y) == IF IsNaN(x) \/ IsNaN(y) THEN NaN
              ELSE Rat(x.n * y.d - y.n * x.d, x.d * y.d)

FMul(x, y) == IF IsNaN(x) \/ IsNaN(y) THEN NaN
              ELSE Rat(x.n * y.n, x.d * y.d)

\* Division by a positive count (count as f64).
FDivCount(x, count) == IF IsNaN(x) THEN NaN ELSE Rat(x.n, x.d * count)

\* IEEE comparison: false whenever an operand is NaN.
FLess(x, y) == ~IsNaN(x) /\ ~IsNaN(y) /\ x.n * y.d < y.n * x.d
FLeq(x, y)  == ~IsNaN(x) /\ ~IsNaN(y) /\ x.n * y.d <= y.n * x.d

\* Variant: a NaN operand makes the result NaN (f64::maximum).
F64Max_propagate(x, y) == IF IsNaN(x) \/ IsNaN(y) THEN NaN
                          ELSE IF FLess(x, y) THEN y ELSE x

\* f64::max / f64::min: a NaN operand is ignored in favour of the other.
F64Max(x, y) == IF IsNaN(x) THEN y ELSE IF IsNaN(y) THEN x
                ELSE IF FLess(x, y) THEN y ELSE x
F64Min(x, y) == IF IsNaN(x) THEN y ELSE IF IsNaN(y) THEN x
                ELSE IF FLess(y, x) THEN y ELSE x

IsSquare(m) == \E r \in 0..m : r * r = m
Root(m) == CHOOSE r \in 0..m : r * r = m

\* f64::sqrt of a non-negative value (variance is a sum of squares).
FSqrt(x) == IF IsNaN(x) THEN NaN
            ELSE IF IsSquare(x.n) /\ IsSquare(x.d) THEN Rat(Root(x.n), Root(x.d))
            ELSE [k |-> "sqrt", n |-> x.n, d |-> x.d]

\* ------------------------------------------------------------- statistics
None == [k |-> "none", n |-> 0, d |-> 1]

RECURSIVE FSum(_)
FSum(data) == IF data = <<>> THEN F64(0)
              ELSE FAdd(FSum(SubSeq(data, 1, Len(data) - 1)), data[Len(data)])

\* Variant: the sum is returned without the division by count.
mean_sum(data) ==
    LET count == Len(data)
    IN  IF count > 0 THEN FSum(data) ELSE None

\* fn mean(data: &[f64]) -> Option<f64>
mean(data) ==
    LET count == Len(data)
    IN  IF count > 0 THEN FDivCount(FSum(data), count) ELSE None

\* Variant: the sample standard deviation (division by count - 1; 0/0 is
\* NaN for a single sample).
std_deviation_sample(data) ==
    LET count == Len(data)
    IN  IF count > 1
        THEN LET m == mean(data)
                 sq == [i \in 1..count |->
                          LET diff == FSub(m, data[i]) IN FMul(diff, diff)]
                 variance == FDivCount(FSum(sq), count - 1)
             IN  FSqrt(variance)
        ELSE IF count = 1 THEN NaN ELSE None

\* fn std_deviation(data: &[f64]) -> Option<f64>
std_deviation(data) ==
    LET count == Len(data)
    IN  IF count > 0
        THEN LET m == mean(data)
                 sq == [i \in 1..count |->
                          LET diff == FSub(m, data[i]) IN FMul(diff, diff)]
                 variance == FDivCount(FSum(sq), count)
             IN  FSqrt(variance)
        ELSE None

\* metrics.clone().into_iter().reduce(f64::max): None on an empty vector,
\* otherwise the left fold of f64::max starting from the first element.
RECURSIVE fold_max(_, _)
fold_max(acc, data) ==
    IF data = <<>> THEN acc ELSE fold_max(F64Max(acc, Head(data)), Tail(data))

reduce_max(data) == IF data = <<>> THEN None ELSE fold_max(Head(data), Tail(data))

\* metrics.clone().into_iter().reduce(f64::min)
RECURSIVE fold_min(_, _)
fold_min(acc, data) ==
    IF data = <<>> THEN acc ELSE fold_min(F64Min(acc, Head(data)), Tail(data))

reduce_min(data) == IF data = <<>> THEN None ELSE fold_min(Head(data), Tail(data))

\* ------------------------------------------------------------- data model
\* Option<u32>: <<>> is None, <<v>> is Some(v).
Control(t, n, q) ==
    [test_time |-> t, test_iterations |-> n, queue_num |-> q,
     queue_size |-> <<>>, net_rx |-> <<>>, fio_ops |-> <<>>]

\* Probes (the functions behind func_ptr) are external measurement
\* functions.  Each call of a probe returns one sample, panics, or never
\* returns; a call may take any amount of time.
ProbeReturns(f) ==
    CASE f = "const5"  -> {F64(5)}
      [] f = "const10" -> {F64(10)}
      [] f = "flaky"   -> {F64(5), F64(10)}
      [] f = "any"     -> {NaN, F64(-3), F64(0), F64(2), F64(5), Rat(1, 2)}

ProbeMayPanic(f) == f = "flaky"
ProbeMayBlock(f) == f = "flaky"

\* Names are character sequences so that str::contains is computed.
Test(nm, f, c) == [name |-> nm, func_ptr |-> f, control |-> c]

\* The descriptors the registry is built from.  Two pairs share a name while
\* their func_ptr and control differ.
Catalog ==
    { Test(<<"a">>,      "const5",  Control(0, 2, <<>>)),
      Test(<<"b">>,      "const10", Control(1, 1, <<>>)),
      Test(<<"a", "b">>, "flaky",   Control(0, 2, <<1>>)),
      Test(<<"a">>,      "flaky",   Control(0, 1, <<2>>)),
      Test(<<"b">>,      "flaky",   Control(0, 0, <<>>)) }

\* Values of the TEST_FILTER environment variable ("" when unset).
Filters == { <<>>, <<"a">>, <<"c">> }

\* Variant: equality over every field (a derived PartialEq).
eq_all(x, y) == x = y

\* impl PartialEq for PerformanceTest: equality by name only.
eq(x, y) == x.name = y.name

\* Variant: the new value takes the place of an equal one (HashSet::replace).
insert_replace(m, d) == { e \in m : ~eq(e, d) } \cup {d}

\* HashSet::insert: the value is added only if no equal value is present.
insert(m, d) == IF \E e \in m : eq(e, d) THEN m ELSE m \cup {d}

\* Variant: the name is compared with the pattern (==).
contains_eq(nm, pat) == nm = pat

\* str::contains(&pat): pat occurs as a contiguous substring.
contains(nm, pat) ==
    \E i \in 1..(Len(nm) + 1) :
        /\ i + Len(pat) - 1 <= Len(nm)
        /\ SubSeq(nm, i, i + Len(pat) - 1) = pat

\* A u32 is kept as two 16-bit halves so that the full 32-bit range and its
\* wrap-around are computed exactly.
U32(x) == [hi |-> (x \div 65536) % 65536, lo |-> x % 65536]

\* The number a u32 stands for (`as u64`), for values below 2^31.
Value(u) == u.hi * 65536 + u.lo

\* (x * y) mod 2^16 for 16-bit x and y.
mul16(x, y) == ((x % 256) * y + (((x \div 256) * y) % 256) * 256) % 65536

\* u32 addition, wrapping.
u32_add(a, b) ==
    [hi |-> (a.hi + b.hi + ((a.lo + b.lo) \div 65536)) % 65536,
     lo |-> (a.lo + b.lo) % 65536]

\* u32 multiplication, wrapping.
u32_mul(a, b) ==
    LET p0 == (a.lo % 256) * b.lo
        p1 == (a.lo \div 256) * b.lo
        low == p0 + (p1 % 256) * 256
    IN  [hi |-> ((low \div 65536) + (p1 \div 256)
                    + mul16(a.hi, b.lo) + mul16(a.lo, b.hi)) % 65536,
         lo |-> low % 65536]

\* (x * y) div 2^16 for 16-bit x and y.
hi16(x, y) ==
    LET p0 == (x % 256) * y
        p1 == (x \div 256) * y
    IN  ((p0 + (p1 % 256) * 256) \div 65536) + (p1 \div 256)

\* The u32 sum a + b does not fit in 32 bits.
u32_add_overflows(a, b) == a.hi + b.hi + ((a.lo + b.lo) \div 65536) >= 65536

\* The u32 product a * b does not fit in 32 bits.
u32_mul_overflows(a, b) ==
    \/ a.hi # 0 /\ b.hi # 0
    \/ hi16(a.hi, b.lo) # 0
    \/ hi16(a.lo, b.hi) # 0
    \/ hi16(a.lo, b.lo) + mul16(a.hi, b.lo) + mul16(a.lo, b.hi) >= 65536

\* ((test_time + 20) * test_iterations) on u32 operands.
timeout_u32(test_time, test_iterations) ==
    u32_mul(u32_add(test_time, U32(SetupAllowance)), test_iterations)

\* PerformanceTest::calc_timeout.  When both factors are below 2^15 the
\* product cannot wrap and is computed directly; otherwise it is computed by
\* timeout_u32.
calc_timeout(test) ==
    IF /\ test.control.test_time + SetupAllowance < 32768
       /\ test.control.test_iterations < 32768
    THEN (test.control.test_time + SetupAllowance) * test.control.test_iterations
    ELSE Value(timeout_u32(U32(test.control.test_time),
                           U32(test.control.test_iterations)))

\* An operation of calc_timeout overflows u32.  A build with overflow checks
\* (the debug profile) panics there; a build without them (the release
\* profile) wraps.
calc_timeout_overflows(test) ==
    IF /\ test.control.test_time + SetupAllowance < 32768
       /\ test.control.test_iterations < 32768
    THEN FALSE
    ELSE \/ u32_add_overflows(U32(test.control.test_time), U32(SetupAllowance))
         \/ u32_mul_overflows(u32_add(U32(test.control.test_time),
                                      U32(SetupAllowance)),
                              U32(test.control.test_iterations))

NoResult == [name |-> <<>>, mean |-> None, std_dev |-> None,
             max |-> None, min |-> None]

\* The PerformanceTestResult built at the end of PerformanceTest::run.
TestResult(test, metrics) ==
    [name |-> test.name, mean |-> mean(metrics),
     std_dev |-> std_deviation(metrics),
     max |-> reduce_max(metrics), min |-> reduce_min(metrics)]

\* Result<PerformanceTestResult, Error>
Ok(r)  == [tag |-> "Ok",  result |-> r,        err |-> "none"]
Err(e) == [tag |-> "Err", result |-> NoResult, err |-> e]
NoOutput == [tag |-> "none", result |-> NoResult, err |-> "none"]

\* ------------------------------------------------------------------ state
VARIABLES
    pc,              \* position of the driver (main)
    test_filter,     \* TEST_FILTER as read at startup
    TEST_LIST,       \* the registry (HashSet<PerformanceTest>)
    inserts,         \* the insert calls made so far by its initializer
    iterated,        \* descriptors yielded so far by TEST_LIST.iter()
    outcome,         \* per yielded descriptor: what the driver did with it
    workers,         \* per yielded descriptor: its worker thread
    channels,        \* per yielded descriptor: its mpsc channel
    test_timeout,    \* the deadline of the current bounded wait (seconds)
    clock,           \* seconds elapsed in the current bounded wait
    metrics_report,  \* the MetricsReport under assembly
    emitted          \* reports printed to stdout, oldest first

vars == <<pc, clock, inserts, test_filter, TEST_LIST, iterated, outcome, workers,
          channels, test_timeout, metrics_report, emitted>>

NoWorker == [wpc |-> "none", calls |-> <<>>, metrics |-> <<>>,
             output |-> NoOutput, sent |-> "no", panicked |-> "no"]

NoChannel == [queue |-> <<>>, receiver |-> FALSE, sender |-> FALSE]

Init ==
    /\ pc = "start"
    /\ test_filter = <<>>
    /\ TEST_LIST = {}
    /\ inserts = <<>>
    /\ iterated = <<>>
    /\ outcome = <<>>
    /\ workers = <<>>
    /\ channels = <<>>
    /\ test_timeout = 0
    /\ clock = 0
    /\ metrics_report = [git_human_readable |-> "v0", git_revision |-> "r0",
                         date |-> "", results |-> <<>>]
    /\ emitted = <<>>

\* Descriptors the iterator has not yielded yet.
Remaining == { d \in TEST_LIST : \A i \in 1..Len(iterated) : iterated[i] # d }

\* Index of the descriptor the driver is currently handling.
Cur == Len(iterated)

\* ---------------------------------------------------------- serialization
\* serde_json writes a non-finite f64 as null and any other f64 as a number.
json_f64(x) == IF IsNaN(x) THEN [k |-> "null", n |-> 0, d |-> 1] ELSE x

json_result(r) ==
    [name |-> r.name, mean |-> json_f64(r.mean), std_dev |-> json_f64(r.std_dev),
     max |-> json_f64(r.max), min |-> json_f64(r.min)]

\* serde_json::to_string_pretty(&metrics_report)
to_string_pretty(report) ==
    [git_human_readable |-> report.git_human_readable,
     git_revision |-> report.git_revision,
     date |-> report.date,
     results |-> [i \in 1..Len(report.results) |-> json_result(report.results[i])]]

\* -------------------------------------------------------------- the driver
\* main, up to init_tests(): read TEST_FILTER and build the empty report.
MainStart(f) ==
    /\ pc = "start"
    /\ test_filter' = f
    /\ metrics_report' = [metrics_report EXCEPT !.date = "today", !.results = <<>>]
    /\ pc' = "build"
    /\ UNCHANGED <<TEST_LIST, inserts, iterated, outcome, workers, channels,
                   test_timeout, clock, emitted>>

\* One m.insert(PerformanceTest {..}) of the lazy_static initializer.
Insert(d) ==
    /\ pc = "build"
    /\ Len(inserts) < MaxInsert
    /\ TEST_LIST' = insert(TEST_LIST, d)
    /\ inserts' = Append(inserts, d)
    /\ UNCHANGED <<pc, test_filter, iterated, outcome, workers, channels,
                   test_timeout, clock, metrics_report, emitted>>

\* The initializer returns m; TEST_LIST.iter() starts.
BuildDone ==
    /\ pc = "build"
    /\ pc' = "loop"
    /\ inserts' = <<>>
    /\ UNCHANGED <<test_filter, TEST_LIST, iterated, outcome, workers,
                   channels, test_timeout, clock, metrics_report, emitted>>

\* Variant: a descriptor that does not match the filter ends the loop.
MainSkip_break(d) ==
    /\ pc = "loop"
    /\ d \in Remaining
    /\ ~contains(d.name, test_filter)
    /\ iterated' = Append(iterated, d)
    /\ outcome' = Append(outcome, "Skipped")
    /\ workers' = Append(workers, NoWorker)
    /\ channels' = Append(channels, NoChannel)
    /\ pc' = "cleanup"
    /\ UNCHANGED <<test_filter, TEST_LIST, inserts, test_timeout, clock,
                   metrics_report, emitted>>

\* The iterator yields d (a HashSet iterates in an arbitrary order) and
\* test.name.contains(&test_filter) is false: nothing is done for d.
MainSkip(d) ==
    /\ pc = "loop"
    /\ d \in Remaining
    /\ ~contains(d.name, test_filter)
    /\ iterated' = Append(iterated, d)
    /\ outcome' = Append(outcome, "Skipped")
    /\ workers' = Append(workers, NoWorker)
    /\ channels' = Append(channels, NoChannel)
    /\ UNCHANGED <<pc, test_filter, TEST_LIST, inserts, test_timeout, clock,
                   metrics_report, emitted>>

\* The iterator yields d, the filter matches, and run_test_with_timetout
\* creates the channel and spawns the worker thread.
MainSpawn(d) ==
    /\ pc = "loop"
    /\ d \in Remaining
    /\ contains(d.name, test_filter)
    /\ iterated' = Append(iterated, d)
    /\ outcome' = Append(outcome, "Running")
    /\ workers' = Append(workers, [NoWorker EXCEPT !.wpc = "spawned"])
    /\ channels' = Append(channels,
                          [queue |-> <<>>, receiver |-> TRUE, sender |-> TRUE])
    /\ pc' = "spawned"
    /\ UNCHANGED <<test_filter, TEST_LIST, inserts, test_timeout, clock,
                   metrics_report, emitted>>

\* Variant: Receiver::recv, which waits without a deadline.
recv_blocking(ch, elapsed, timeout) ==
    IF ch.queue # <<>> THEN [st |-> "msg", msg |-> Head(ch.queue)]
    ELSE IF ~ch.sender THEN [st |-> "disconnected", msg |-> NoOutput]
    ELSE [st |-> "pending", msg |-> NoOutput]

\* Receiver::recv_timeout after `elapsed` of `timeout` seconds.
recv_timeout(ch, elapsed, timeout) ==
    IF ch.queue # <<>> THEN [st |-> "msg", msg |-> Head(ch.queue)]
    ELSE IF ~ch.sender THEN [st |-> "disconnected", msg |-> NoOutput]
    ELSE IF elapsed >= timeout THEN [st |-> "timeout", msg |-> NoOutput]
    ELSE [st |-> "pending", msg |-> NoOutput]

\* Variant: the receive error is mapped to Error::TestFailed.
map_err_failed(r) == IF r.st = "msg" THEN r.msg ELSE Err("TestFailed")

\* .map_err(|_| Error::TestTimeout)? : what run_test_with_timetout returns
\* for a finished recv_timeout.
map_err(r) == IF r.st = "msg" THEN r.msg ELSE Err("TestTimeout")

\* Variant: the result is inserted at the front of the list.
OnOk_front(i, r) ==
    /\ metrics_report' = [metrics_report EXCEPT !.results = <<r>> \o @]
    /\ outcome' = [outcome EXCEPT ![i] = "Ok"]
    /\ pc' = "loop"
    /\ UNCHANGED emitted

\* Variant: the report is printed after every recorded result.
OnOk_print(i, r) ==
    /\ metrics_report' = [metrics_report EXCEPT !.results = Append(@, r)]
    /\ outcome' = [outcome EXCEPT ![i] = "Ok"]
    /\ pc' = "loop"
    /\ emitted' = Append(emitted, to_string_pretty(metrics_report'))

\* main: Ok(r) => metrics_report.results.push(r)
OnOk(i, r) ==
    /\ metrics_report' = [metrics_report EXCEPT !.results = Append(@, r)]
    /\ outcome' = [outcome EXCEPT ![i] = "Ok"]
    /\ pc' = "loop"
    /\ UNCHANGED emitted

\* Variant: `continue` in place of `break`.
OnErr_continue(i, e) ==
    /\ outcome' = [outcome EXCEPT ![i] = e]
    /\ pc' = "loop"
    /\ UNCHANGED <<metrics_report, emitted>>

\* Variant: the results collected so far are discarded on an error.
OnErr_clear(i, e) ==
    /\ outcome' = [outcome EXCEPT ![i] = e]
    /\ pc' = "cleanup"
    /\ metrics_report' = [metrics_report EXCEPT !.results = <<>>]
    /\ UNCHANGED emitted

\* main: Err(e) => { eprintln!(..); break; }
OnErr(i, e) ==
    /\ outcome' = [outcome EXCEPT ![i] = e]
    /\ pc' = "cleanup"
    /\ UNCHANGED <<metrics_report, emitted>>

\* run_test_with_timetout returns res: its receiver is dropped and main
\* matches on the result.
Return(i, res) ==
    /\ channels' = [channels EXCEPT ![i].receiver = FALSE, ![i].queue = <<>>]
    /\ IF res.tag = "Ok" THEN OnOk(i, res.result) ELSE OnErr(i, res.err)

\* run_test_with_timetout: calc_timeout, then recv_timeout starts waiting.
\* When calc_timeout overflows in a build with overflow checks, the panic
\* unwinds main and the process ends.
MainRecvEnter ==
    /\ pc = "spawned"
    /\ \E overflow_checks \in
            (IF calc_timeout_overflows(iterated[Cur]) THEN BOOLEAN ELSE {FALSE}) :
          IF overflow_checks
          THEN /\ pc' = "panicked"
               /\ UNCHANGED <<test_timeout, clock, channels, outcome,
                              metrics_report, emitted>>
          ELSE /\ test_timeout' = calc_timeout(iterated[Cur])
               /\ clock' = 0
               /\ LET r == recv_timeout(channels[Cur], 0,
                                        calc_timeout(iterated[Cur]))
                  IN  IF r.st = "pending"
                      THEN /\ pc' = "wait"
                           /\ UNCHANGED <<channels, outcome, metrics_report,
                                          emitted>>
                      ELSE Return(Cur, map_err(r))
    /\ UNCHANGED <<test_filter, TEST_LIST, inserts, iterated, workers>>

\* The blocked driver is woken by a message (or by the sender going away).
MainRecv ==
    /\ pc = "wait"
    /\ LET r == recv_timeout(channels[Cur], clock, test_timeout)
       IN  /\ r.st \in {"msg", "disconnected"}
           /\ Return(Cur, map_err(r))
    /\ UNCHANGED <<test_filter, TEST_LIST, inserts, iterated, workers,
                   test_timeout, clock>>

\* One second passes while the driver is blocked with nothing to receive;
\* when it is the last second of the timeout, recv_timeout returns.
Tick ==
    /\ pc = "wait"
    /\ clock < test_timeout
    /\ recv_timeout(channels[Cur], clock, test_timeout).st = "pending"
    /\ clock' = clock + 1
    /\ LET r == recv_timeout(channels[Cur], clock + 1, test_timeout)
       IN  IF r.st = "pending"
           THEN UNCHANGED <<pc, channels, outcome, metrics_report, emitted>>
           ELSE Return(Cur, map_err(r))
    /\ UNCHANGED <<test_filter, TEST_LIST, inserts, iterated, workers,
                   test_timeout>>

\* The iterator is exhausted: the for loop ends.
MainLoopEnd ==
    /\ pc = "loop"
    /\ Remaining = {}
    /\ pc' = "cleanup"
    /\ UNCHANGED <<test_filter, TEST_LIST, inserts, iterated, outcome, workers,
                   channels, test_timeout, clock, metrics_report, emitted>>

\* cleanup_tests()
MainCleanup ==
    /\ pc = "cleanup"
    /\ pc' = "emit"
    /\ UNCHANGED <<test_filter, TEST_LIST, inserts, iterated, outcome, workers,
                   channels, test_timeout, clock, metrics_report, emitted>>

\* println!(.., serde_json::to_string_pretty(&metrics_report).unwrap());
\* main returns.
MainEmit ==
    /\ pc = "emit"
    /\ emitted' = Append(emitted, to_string_pretty(metrics_report))
    /\ pc' = "done"
    /\ UNCHANGED <<test_filter, TEST_LIST, inserts, iterated, outcome, workers,
                   channels, test_timeout, clock, metrics_report>>

\* ---------------------------------------------------------- worker threads
\* Worker threads run until main returns or panics (the process then exits).
Alive(i) == i \in 1..Len(workers) /\ pc \notin {"done", "panicked"}

\* The spawned thread starts: println!("Test '{}' running ..").
WorkerStart(i) ==
    /\ Alive(i)
    /\ workers[i].wpc = "spawned"
    /\ workers' = [workers EXCEPT ![i].wpc = "loop"]
    /\ UNCHANGED <<pc, test_filter, TEST_LIST, inserts, iterated, outcome,
                   channels, test_timeout, clock, metrics_report, emitted>>

\* Variant: the inclusive range 0..=test_iterations.
loop_continues_inclusive(test, metrics) ==
    Len(metrics) <= test.control.test_iterations

\* run: the loop `for _ in 0..test_iterations` has an iteration left.
loop_continues(test, metrics) == Len(metrics) < test.control.test_iterations

\* run: (self.func_ptr)(&self.control) is called.
ProbeInvoke(i) ==
    /\ Alive(i)
    /\ workers[i].wpc = "loop"
    /\ loop_continues(iterated[i], workers[i].metrics)
    /\ workers' = [workers EXCEPT ![i].wpc = "call",
                                  ![i].calls = Append(@, iterated[i].control)]
    /\ UNCHANGED <<pc, test_filter, TEST_LIST, inserts, iterated, outcome,
                   channels, test_timeout, clock, metrics_report, emitted>>

\* The probe returns the sample v: metrics.push(v).
ProbeReturn(i, v) ==
    /\ Alive(i)
    /\ workers[i].wpc = "call"
    /\ v \in ProbeReturns(iterated[i].func_ptr)
    /\ workers' = [workers EXCEPT ![i].wpc = "loop",
                                  ![i].metrics = Append(@, v)]
    /\ UNCHANGED <<pc, test_filter, TEST_LIST, inserts, iterated, outcome,
                   channels, test_timeout, clock, metrics_report, emitted>>

\* Variant: run() is called without catch_unwind; the panic ends the thread.
uncaught_panic(w, by) == [w EXCEPT !.wpc = "dead", !.panicked = by]

\* catch_unwind(|| test.run()) returned Err(_): output = Err(TestFailed).
\* `by` records what panicked: the probe, or an unwrap() in run.
caught_panic(w, by) ==
    [w EXCEPT !.wpc = "send", !.output = Err("TestFailed"), !.panicked = by]

\* The probe panics; the unwinding is caught by catch_unwind.
ProbePanic(i) ==
    /\ Alive(i)
    /\ workers[i].wpc = "call"
    /\ ProbeMayPanic(iterated[i].func_ptr)
    /\ workers' = [workers EXCEPT ![i] = caught_panic(workers[i], "probe")]
    /\ UNCHANGED <<pc, test_filter, TEST_LIST, inserts, iterated, outcome,
                   channels, test_timeout, clock, metrics_report, emitted>>

\* The probe never returns.
ProbeBlock(i) ==
    /\ Alive(i)
    /\ workers[i].wpc = "call"
    /\ ProbeMayBlock(iterated[i].func_ptr)
    /\ workers' = [workers EXCEPT ![i].wpc = "blocked"]
    /\ UNCHANGED <<pc, test_filter, TEST_LIST, inserts, iterated, outcome,
                   channels, test_timeout, clock, metrics_report, emitted>>

\* run, after the loop: the statistics are computed; mean(..).unwrap()
\* panics on an empty vector, which catch_unwind catches as well.
WorkerReduce(i) ==
    /\ Alive(i)
    /\ workers[i].wpc = "loop"
    /\ ~loop_continues(iterated[i], workers[i].metrics)
    /\ LET w == workers[i]
       IN  workers' = [workers EXCEPT ![i] =
              IF mean(w.metrics) = None
              THEN caught_panic(w, "unwrap")
              ELSE [w EXCEPT !.wpc = "send",
                             !.output = Ok(TestResult(iterated[i], w.metrics))]]
    /\ UNCHANGED <<pc, test_filter, TEST_LIST, inserts, iterated, outcome,
                   channels, test_timeout, clock, metrics_report, emitted>>

\* Sender::send on the unbounded channel: queues the value while the
\* receiver exists, otherwise hands it back as Err (dropped by `let _ =`).
send(ch, msg) == IF ch.receiver THEN [ch EXCEPT !.queue = Append(@, msg)] ELSE ch

\* Variant: sender.send(output).unwrap(), which panics once the receiver
\* is gone.
WorkerSend_unwrap(i) ==
    /\ i \in 1..Len(workers) /\ pc # "done"
    /\ workers[i].wpc = "send"
    /\ channels' = [channels EXCEPT ![i] = [send(@, workers[i].output)
                                              EXCEPT !.sender = FALSE]]
    /\ workers' = [workers EXCEPT
                      ![i].wpc = IF channels[i].receiver THEN "exit" ELSE "dead",
                      ![i].sent = IF channels[i].receiver THEN "queued" ELSE "dropped"]
    /\ UNCHANGED <<pc, test_filter, TEST_LIST, inserts, iterated, outcome,
                   test_timeout, clock, metrics_report, emitted>>

\* let _ = sender.send(output); the closure ends and the sender is dropped.
WorkerSend(i) ==
    /\ Alive(i)
    /\ workers[i].wpc = "send"
    /\ channels' = [channels EXCEPT ![i] = [send(@, workers[i].output)
                                              EXCEPT !.sender = FALSE]]
    /\ workers' = [workers EXCEPT ![i].wpc = "exit",
                      ![i].sent = IF channels[i].receiver THEN "queued" ELSE "dropped"]
    /\ UNCHANGED <<pc, test_filter, TEST_LIST, inserts, iterated, outcome,
                   test_timeout, clock, metrics_report, emitted>>

\* ---------------------------------------------------------- specification
Driver ==
    \/ \E f \in Filters : MainStart(f)
    \/ \E d \in Catalog : Insert(d)
    \/ BuildDone
    \/ \E d \in TEST_LIST : MainSkip(d)
    \/ \E d \in TEST_LIST : MainSpawn(d)
    \/ MainRecvEnter
    \/ MainRecv
    \/ MainLoopEnd
    \/ MainCleanup
    \/ MainEmit

Worker(i) ==
    \/ WorkerStart(i)
    \/ ProbeInvoke(i)
    \/ \E v \in ProbeReturns(iterated[i].func_ptr) : ProbeReturn(i, v)
    \/ ProbePanic(i)
    \/ ProbeBlock(i)
    \/ WorkerReduce(i)
    \/ WorkerSend(i)

Next ==
    \/ Driver
    \/ Tick
    \/ \E i \in 1..Len(workers) : Worker(i)

Spec == Init /\ [][Next]_vars

\* The driver keeps running whenever it can, and time passes while it is
\* blocked in recv_timeout.  Nothing is assumed about the worker threads.
LiveSpec == Spec /\ WF_vars(Driver) /\ WF_vars(Tick)

\* ------------------------------------------------ when stdout cannot be written
\* println! panics when the write to stdout fails.  Spec describes the runs
\* in which every write succeeds; StdoutSpec adds the runs in which one
\* fails.

\* A println! of the worker thread panics: the one before catch_unwind
\* (thread just spawned) or the one in the Ok arm (run() has returned its
\* result).  Neither is inside catch_unwind: the thread unwinds, and its
\* sender is dropped without anything having been sent.
PrintPanic(i) ==
    /\ Alive(i)
    /\ \/ workers[i].wpc = "spawned"
       \/ /\ workers[i].wpc = "loop"
          /\ ~loop_continues(iterated[i], workers[i].metrics)
          /\ mean(workers[i].metrics) # None
    /\ workers' = [workers EXCEPT ![i].wpc = "unwound", ![i].panicked = "println"]
    /\ channels' = [channels EXCEPT ![i].sender = FALSE]
    /\ UNCHANGED <<pc, test_filter, TEST_LIST, inserts, iterated, outcome,
                   test_timeout, clock, metrics_report, emitted>>

\* The println! of main panics: nothing is printed and the process ends.
EmitPanic ==
    /\ pc = "emit"
    /\ pc' = "panicked"
    /\ UNCHANGED <<test_filter, TEST_LIST, inserts, iterated, outcome, workers,
                   channels, test_timeout, clock, metrics_report, emitted>>

StdoutNext ==
    \/ Next
    \/ \E i \in 1..Len(workers) : PrintPanic(i)
    \/ EmitPanic

StdoutSpec == Init /\ [][StdoutNext]_vars

\* ------------------------------------------- the deadline computation alone
\* Values of the u32 fields test_time and test_iterations, small and large.
TestTimes == {0, 2, 10, 65516, 65517, 1000000, 858993440, 1431655746}

TestIterations == {0, 1, 10, 30, 65536, 1048576, 16777216}

\* run_test_with_timetout has been entered for a descriptor with any of
\* these controls: the channel exists and the worker thread is spawned.
TimeoutInit ==
    \E t \in TestTimes, n \in TestIterations :
        LET d == Test(<<"a">>, "const5", Control(t, n, <<>>))
        IN  /\ pc = "spawned"
            /\ test_filter = <<>>
            /\ TEST_LIST = {d}
            /\ inserts = <<>>
            /\ iterated = <<d>>
            /\ outcome = <<"Running">>
            /\ workers = <<[NoWorker EXCEPT !.wpc = "spawned"]>>
            /\ channels = <<[queue |-> <<>>, receiver |-> TRUE, sender |-> TRUE]>>
            /\ test_timeout = 0
            /\ clock = 0
            /\ metrics_report = [git_human_readable |-> "v0",
                                 git_revision |-> "r0",
                                 date |-> "today", results |-> <<>>]
            /\ emitted = <<>>

\* The deadline is computed and the bounded wait starts, while the worker
\* thread may start.
TimeoutNext ==
    \/ MainRecvEnter
    \/ WorkerStart(1)

TimeoutSpec == TimeoutInit /\ [][TimeoutNext]_vars

\* ------------------------------------------------- the statistics alone
\* The sample vectors run() can have collected from a probe that may return
\* any value: every sequence of up to MaxSamples of them.
RECURSIVE SeqsUpTo(_, _)
SeqsUpTo(S, n) ==
    IF n = 0 THEN {<<>>}
    ELSE LET shorter == SeqsUpTo(S, n - 1)
         IN  shorter \cup { Append(q, x) : q \in shorter, x \in S }

\* The worker thread of a descriptor has made all its probe calls and
\* collected `data`; the driver has spawned it and not yet started to wait.
StatInit ==
    \E data \in SeqsUpTo(ProbeReturns("any"), MaxSamples) :
        LET d == Test(<<"a">>, "any", Control(0, Len(data), <<>>))
        IN  /\ pc = "spawned"
            /\ test_filter = <<>>
            /\ TEST_LIST = {d}
            /\ inserts = <<>>
            /\ iterated = <<d>>
            /\ outcome = <<"Running">>
            /\ workers = <<[NoWorker EXCEPT
                               !.wpc = "loop",
                               !.calls = [k \in 1..Len(data) |-> d.control],
                               !.metrics = data]>>
            /\ channels = <<[queue |-> <<>>, receiver |-> TRUE, sender |-> TRUE]>>
            /\ test_timeout = 0
            /\ clock = 0
            /\ metrics_report = [git_human_readable |-> "v0",
                                 git_revision |-> "r0",
                                 date |-> "today", results |-> <<>>]
            /\ emitted = <<>>

\* run() reduces the samples and the result travels to the report.
StatNext ==
    \/ WorkerReduce(1)
    \/ WorkerSend(1)
    \/ MainRecvEnter
    \/ MainRecv
    \/ MainLoopEnd
    \/ MainCleanup
    \/ MainEmit

StatSpec == StatInit /\ [][StatNext]_vars

\* ---------------------------------------- runs over constant probes alone
\* Descriptors whose probe returns the same sample on every call.
ConstCatalog ==
    { Test(<<"a">>,      "const5",  Control(0, 3, <<>>)),
      Test(<<"b">>,      "const10", Control(0, 2, <<>>)),
      Test(<<"a", "b">>, "const5",  Control(1, 1, <<>>)) }

\* main is about to start the loop over a registry of such descriptors,
\* TEST_FILTER being unset.
ConstInit ==
    \E registry \in (SUBSET ConstCatalog) \ {{}} :
        /\ pc = "loop"
        /\ test_filter = <<>>
        /\ TEST_LIST = registry
        /\ inserts = <<>>
        /\ iterated = <<>>
        /\ outcome = <<>>
        /\ workers = <<>>
        /\ channels = <<>>
        /\ test_timeout = 0
        /\ clock = 0
        /\ metrics_report = [git_human_readable |-> "v0", git_revision |-> "r0",
                             date |-> "today", results |-> <<>>]
        /\ emitted = <<>>

\* The loop of main, the executor and the worker threads.
ConstNext ==
    \/ \E d \in TEST_LIST : MainSpawn(d)
    \/ MainRecvEnter
    \/ MainRecv
    \/ Tick
    \/ MainLoopEnd
    \/ MainCleanup
    \/ MainEmit
    \/ \E i \in 1..Len(workers) :
          \/ WorkerStart(i)
          \/ ProbeInvoke(i)
          \/ \E v \in ProbeReturns(iterated[i].func_ptr) : ProbeReturn(i, v)
          \/ WorkerReduce(i)
          \/ WorkerSend(i)

ConstSpec == ConstInit /\ [][ConstNext]_vars

\* ------------------------------------------------------ shared vocabulary
Errors == {"TestTimeout", "TestFailed"}

Positions == 1..Len(iterated)

\* The driver loop was left by `break`.
Aborted == \E i \in Positions : outcome[i] \in Errors

\* A worker thread that has been spawned and has not finished its closure.
Active(i) == workers[i].wpc \in {"spawned", "loop", "call", "blocked", "send", "dead"}

ResultNames == { metrics_report.results[k].name : k \in 1..Len(metrics_report.results) }

\* Names of the descriptors recorded so far, in the order they were yielded.
RECURSIVE OkNames(_)
OkNames(k) ==
    IF k = 0 THEN <<>>
    ELSE IF outcome[k] = "Ok" THEN Append(OkNames(k - 1), iterated[k].name)
    ELSE OkNames(k - 1)

\* ------------------------------------------------------------------ claims

\* C1: fail-fast abort.  Once the executor has returned TestTimeout or
\* TestFailed for a descriptor, that descriptor is the last one the
\* iterator ever yields (every later descriptor stays Pending: it is never
\* yielded, no worker is spawned for it and its probe is never invoked), it
\* is the only aborted descriptor, and the driver has left the loop.
C1_FailFast ==
    \A i \in Positions :
        outcome[i] \in Errors =>
            /\ i = Len(iterated)
            /\ \A j \in Positions : j # i => outcome[j] \notin Errors
            /\ pc \in {"cleanup", "emit", "done"}

\* A run that aborted while a descriptor matching the filter was pending.
C1_Witness ==
    /\ pc = "done"
    /\ Aborted
    /\ \E d \in Remaining : contains(d.name, test_filter)

\* C2: partial results survive an abort.  The step in which the executor
\* returns an error, and every later step, leaves the report unchanged; the
\* report holds one result per descriptor recorded before the failure; and
\* what is printed is the serialization of exactly that report.
C2_PartialResultsKept ==
    [][ Aborted' =>
          /\ metrics_report' = metrics_report
          /\ Len(metrics_report.results) =
                Cardinality({i \in Positions : outcome[i] = "Ok"})
          /\ pc' = "done" => emitted' = <<to_string_pretty(metrics_report)>> ]_vars

\* An aborted run that printed a report holding an earlier result.
C2_Witness ==
    /\ pc = "done"
    /\ Aborted
    /\ Len(metrics_report.results) >= 1
    /\ Len(emitted) = 1
    /\ Len(emitted[1].results) = Len(metrics_report.results)

\* C3: at most one probe executes at a time.  In every reachable state at
\* most one worker thread is active, also after a timeout has abandoned a
\* worker that is still running.
C3_OneProbeAtATime ==
    Cardinality({i \in Positions : Active(i)}) <= 1

\* A timed-out descriptor whose abandoned worker is still inside its probe.
C3_Witness ==
    \E i \in Positions :
        /\ outcome[i] = "TestTimeout"
        /\ workers[i].wpc \in {"call", "blocked"}
        /\ pc = "emit"

\* C4: a probe that blocks forever is reported as Timeout.  When the
\* executor has returned for a descriptor whose worker had queued no
\* completion signal, it returned TestTimeout; a descriptor whose probe
\* never returns is never reported as Ok or TestFailed.
C4_BlockedIsTimeout ==
    \A i \in Positions :
        /\ (outcome[i] \in {"Ok", "TestFailed", "TestTimeout"}
              /\ workers[i].sent # "queued") => outcome[i] = "TestTimeout"
        /\ workers[i].wpc = "blocked" => outcome[i] \in {"Running", "TestTimeout"}

\* A descriptor reported as Timeout whose probe blocked forever.
C4_Witness ==
    \E i \in Positions :
        /\ workers[i].wpc = "blocked"
        /\ outcome[i] = "TestTimeout"
        /\ clock = calc_timeout(iterated[i])

\* C5 as stated: a crash inside an iteration of the probe makes the
\* executor return TestFailed (not Ok, not TestTimeout) for the descriptor
\* and no result is appended for it.
C5_CrashAlwaysFailed ==
    \A i \in Positions :
        (workers[i].panicked = "probe" /\ outcome[i] # "Running") =>
            /\ outcome[i] = "TestFailed"
            /\ iterated[i].name \notin ResultNames

\* C5, amended: a crash inside an iteration of the probe is caught inside
\* the worker (the worker goes on to send Err(TestFailed) and ends), the
\* step in which it happens changes neither the driver's position nor the
\* report, the descriptor is never reported Ok and gets no result, and the
\* executor returns TestFailed whenever the crash is signalled before the
\* deadline elapses; after a crash that comes later the executor has already
\* returned TestTimeout.
C5_CrashCaught ==
    /\ [](\A i \in Positions :
            workers[i].panicked = "probe" =>
                /\ workers[i].wpc \in {"send", "exit"}
                /\ workers[i].output = Err("TestFailed")
                /\ outcome[i] \in {"Running", "TestFailed", "TestTimeout"}
                /\ iterated[i].name \notin ResultNames
                /\ workers[i].sent = "queued" => outcome[i] \in {"Running", "TestFailed"}
                /\ outcome[i] = "TestTimeout" => workers[i].sent # "queued")
    /\ [][ \A i \in Positions :
             (workers[i].panicked = "no" /\ workers'[i].panicked = "probe") =>
                 /\ pc' = pc
                 /\ metrics_report' = metrics_report
                 /\ outcome' = outcome ]_vars

\* A probe crashed, the executor returned TestFailed and the driver went on
\* to finish the run.
C5_Witness ==
    \E i \in Positions :
        /\ workers[i].panicked = "probe"
        /\ workers[i].sent = "queued"
        /\ outcome[i] = "TestFailed"
        /\ pc = "done"

\* C6: results are recorded in iteration order.  In every reachable state
\* the names in the report's result list are the names of the descriptors
\* whose run was recorded, in the order in which the iterator yielded them.
C6_ResultsInIterationOrder ==
    [k \in 1..Len(metrics_report.results) |-> metrics_report.results[k].name]
        = OkNames(Len(iterated))

\* A finished run that recorded at least two descriptors.
C6_Witness ==
    /\ Len(metrics_report.results) >= 2
    /\ metrics_report.results[1].name = iterated[1].name
    /\ pc = "done"

\* C7: after a timeout the abandoned worker's outcome is ignored.  For a
\* descriptor reported as TestTimeout: the outcome stays TestTimeout, the
\* report never holds a result for it, its worker never dies, a worker that
\* is ready to send can always do so (as long as the process runs), and the
\* send leaves the report, the outcomes, what was printed and the driver's
\* position unchanged while the worker ends normally.
C7_LateSignalIgnored ==
    /\ [](\A i \in Positions :
            outcome[i] = "TestTimeout" =>
                /\ iterated[i].name \notin ResultNames
                /\ workers[i].wpc # "dead"
                /\ workers[i].sent # "queued"
                /\ channels[i].queue = <<>>
                /\ (workers[i].wpc = "send" /\ pc # "done") => ENABLED WorkerSend(i))
    /\ [][ \A i \in Positions :
             outcome[i] = "TestTimeout" =>
                 /\ outcome'[i] = "TestTimeout"
                 /\ (workers[i].wpc = "send" /\ workers'[i].wpc # "send") =>
                        /\ workers'[i].wpc = "exit"
                        /\ workers'[i].sent = "dropped"
                        /\ metrics_report' = metrics_report
                        /\ outcome' = outcome
                        /\ emitted' = emitted
                        /\ pc' = pc ]_vars

\* A worker sent Ok(result) after the executor had returned TestTimeout
\* for its descriptor, and ended.
C7_Witness ==
    \E i \in Positions :
        /\ outcome[i] = "TestTimeout"
        /\ workers[i].sent = "dropped"
        /\ workers[i].output.tag = "Ok"
        /\ workers[i].wpc = "exit"

\* C8: the report is always emitted.  Every run eventually prints the
\* report once and main returns, whether the loop ended by exhaustion or by
\* an abort, and also when a probe never returns.
C8_ReportAlwaysEmitted ==
    <>(pc = "done" /\ Len(emitted) = 1)

\* A run that finished although a probe never returned.
C8_Witness ==
    /\ pc = "done"
    /\ Len(emitted) = 1
    /\ \E i \in Positions : workers[i].wpc = "blocked"

\* C9: the report is serialized exactly once, after the loop.  At most one
\* report is ever printed; it is printed only when no descriptor is Running
\* and either the run aborted or no descriptor matching the filter is
\* pending; a finished run has printed exactly one; and after the printing
\* neither the report nor the output changes.
C9_SerializedOnceAtEnd ==
    /\ [](/\ Len(emitted) <= 1
          /\ pc = "done" <=> Len(emitted) = 1
          /\ Len(emitted) = 1 =>
                /\ \A i \in Positions : outcome[i] # "Running"
                /\ Aborted \/ \A d \in Remaining : ~contains(d.name, test_filter)
                /\ emitted[1] = to_string_pretty(metrics_report))
    /\ [][ Len(emitted) >= 1 =>
             /\ metrics_report' = metrics_report
             /\ emitted' = emitted ]_vars

\* A finished run whose single printed report holds a result.
C9_Witness ==
    /\ pc = "done"
    /\ Len(emitted) = 1
    /\ Len(emitted[1].results) >= 1
    /\ ~Aborted

\* C10: iteration_count = N means N sequential probe calls and N samples.
\* For every worker: the probe is never called more than N times, every
\* call gets the descriptor's own control, at most one call is in flight
\* (the calls made are the samples collected, plus the call in progress),
\* and once the statistics have been computed without a probe crash,
\* exactly N calls were made and exactly N samples were collected.
C10_ExactlyNCalls ==
    \A i \in Positions :
        LET w == workers[i]
            N == iterated[i].control.test_iterations
        IN  /\ Len(w.calls) <= N
            /\ \A k \in 1..Len(w.calls) : w.calls[k] = iterated[i].control
            /\ Len(w.calls) = Len(w.metrics)
                   + (IF w.wpc \in {"call", "blocked"} \/ w.panicked = "probe"
                      THEN 1 ELSE 0)
            /\ (w.wpc \in {"send", "exit"} /\ w.panicked # "probe") =>
                   /\ Len(w.calls) = N
                   /\ Len(w.metrics) = N
            /\ w.output.tag = "Ok" =>
                   w.output.result = TestResult(iterated[i], w.metrics)

\* A run of a descriptor with N = 2 that computed its statistics.
C10_Witness ==
    \E i \in Positions :
        /\ iterated[i].control.test_iterations = 2
        /\ workers[i].output.tag = "Ok"
        /\ Len(workers[i].calls) = 2
        /\ Len(workers[i].metrics) = 2

\* C11 as stated: the statistics functions are never called with an empty
\* sample set from the executor.  Whenever run() has left its loop (every
\* control having test_iterations >= 1) it reduces at least one sample, and
\* the unwrap() of the statistics does not panic.
C11_NeverEmptyStatistics ==
    \A i \in Positions :
        (workers[i].wpc \in {"send", "exit"} /\ workers[i].panicked # "probe")
            => /\ iterated[i].control.test_iterations >= 1
               /\ Len(workers[i].metrics) >= 1
               /\ workers[i].panicked = "no"

\* Exact arithmetic on natural numbers written in base 256, least
\* significant digit first.
RECURSIVE Digits(_, _)
Digits(x, k) == IF k = 0 THEN <<>> ELSE <<x % 256>> \o Digits(x \div 256, k - 1)

RECURSIVE Carried(_, _)
Carried(cols, carry) ==
    IF cols = <<>> THEN <<>>
    ELSE <<(Head(cols) + carry) % 256>>
            \o Carried(Tail(cols), (Head(cols) + carry) \div 256)

\* The eight digits of x * y, for x and y below 2^31.
Product(x, y) ==
    LET a == Digits(x, 4)
        b == Digits(y, 4)
        term(i, k) == IF k + 1 - i \in 1..4 THEN a[i] * b[k + 1 - i] ELSE 0
    IN  Carried([k \in 1..8 |-> term(1, k) + term(2, k) + term(3, k) + term(4, k)], 0)

\* C12 as stated: for every control, once calc_timeout has been evaluated
\* the deadline of the bounded wait is exactly
\* (test_time + 20) * test_iterations as a number (it was computed, and
\* nothing was lost to the 32-bit width).
C12_DeadlineExact ==
    pc # "spawned" =>
        /\ pc # "panicked"
        /\ Digits(test_timeout, 8) =
               Product(iterated[Cur].control.test_time + SetupAllowance,
                       iterated[Cur].control.test_iterations)

\* The descriptors passed to insert so far whose name no earlier call had
\* registered.
FirstOfName ==
    { inserts[k] : k \in { k \in 1..Len(inserts) :
                             \A j \in 1..(k - 1) : inserts[j].name # inserts[k].name } }

\* C13: registry deduplication by name.  The registry never holds two
\* descriptors with the same name, and after any sequence of registrations
\* it holds, for each distinct name registered, exactly the first descriptor
\* registered under that name: a later registration of the name is dropped
\* and the earlier descriptor's probe and control are kept.
C13_DedupByName ==
    /\ \A x, y \in TEST_LIST : x.name = y.name => x = y
    /\ pc = "build" => TEST_LIST = FirstOfName

\* Two descriptors with the same name and different probes and controls
\* were registered; the registry holds the first.
C13_Witness ==
    /\ pc = "build"
    /\ Len(inserts) = 2
    /\ inserts[1].name = inserts[2].name
    /\ inserts[1].func_ptr # inserts[2].func_ptr
    /\ inserts[1].control # inserts[2].control
    /\ TEST_LIST = {inserts[1]}

\* pat is a substring of nm: nm is some prefix, then pat, then some suffix.
Substring(pat, nm) ==
    \E i \in 0..Len(nm), j \in 0..Len(nm) : i <= j /\ SubSeq(nm, i + 1, j) = pat

\* The registry is built and the filter is a substring of no registered name.
NoMatch ==
    /\ pc \notin {"start", "build"}
    /\ \A d \in TEST_LIST : ~Substring(test_filter, d.name)

\* C14: filter selection.  With an empty filter every descriptor the
\* iterator yields is handed to the executor (none is skipped), and a run
\* that ends without an abort has run every registered descriptor.  With a
\* filter that is a substring of no registered name, no worker is spawned
\* and no probe is invoked, nothing aborts, the result list stays empty,
\* and the run goes on to print the report with zero entries.
C14_FilterSelection ==
    /\ []((pc \notin {"start", "build"} /\ test_filter = <<>>) =>
            /\ \A i \in Positions :
                  outcome[i] # "Skipped" /\ workers[i].wpc # "none"
            /\ (pc \in {"cleanup", "emit", "done"} /\ ~Aborted) =>
                  /\ Remaining = {}
                  /\ Len(metrics_report.results) = Cardinality(TEST_LIST))
    /\ [](NoMatch =>
            /\ \A i \in Positions :
                  /\ outcome[i] = "Skipped"
                  /\ workers[i].wpc = "none"
                  /\ workers[i].calls = <<>>
            /\ metrics_report.results = <<>>
            /\ pc = "done" => /\ Len(emitted) = 1
                              /\ emitted[1].results = <<>>)
    /\ (NoMatch ~> (pc = "done" /\ Len(emitted) = 1 /\ emitted[1].results = <<>>))

\* A run over a non-empty registry none of whose names holds the filter: it
\* skipped every descriptor and printed a report with zero entries.
C14_Witness ==
    /\ pc = "done"
    /\ NoMatch
    /\ TEST_LIST # {}
    /\ Len(iterated) = Cardinality(TEST_LIST)
    /\ \E d \in TEST_LIST : Substring(<<"b">>, d.name)
    /\ emitted = <<to_string_pretty(metrics_report)>>
    /\ emitted[1].results = <<>>

\* The samples of a vector, as a set.
Samples(ms) == { ms[k] : k \in 1..Len(ms) }

\* C15 as stated: for every non-empty sample sequence collected by run(),
\* the reported max is >= every sample, the reported min is <= every
\* sample, and both are elements of the sequence.
C15_MaxMinBoundAll ==
    \A i \in Positions :
        workers[i].output.tag = "Ok" =>
            LET r  == workers[i].output.result
                ms == workers[i].metrics
            IN  /\ \A k \in 1..Len(ms) : FLeq(ms[k], r.max) /\ FLeq(r.min, ms[k])
                /\ r.max \in Samples(ms)
                /\ r.min \in Samples(ms)

\* C15, amended: for every non-empty sample sequence collected by run(),
\* the reported max is >= every sample that is not NaN, the reported min is
\* <= every sample that is not NaN, both are elements of the sequence, and
\* each is NaN only when every sample is NaN.  The result recorded in the
\* report is the one run() computed.
C15_MaxMinBound ==
    \A i \in Positions :
        workers[i].output.tag = "Ok" =>
            LET r  == workers[i].output.result
                ms == workers[i].metrics
            IN  /\ Len(ms) >= 1
                /\ \A k \in 1..Len(ms) :
                      ~IsNaN(ms[k]) => FLeq(ms[k], r.max) /\ FLeq(r.min, ms[k])
                /\ r.max \in Samples(ms)
                /\ r.min \in Samples(ms)
                /\ IsNaN(r.max) <=> \A k \in 1..Len(ms) : IsNaN(ms[k])
                /\ IsNaN(r.min) <=> \A k \in 1..Len(ms) : IsNaN(ms[k])
                /\ outcome[i] = "Ok" =>
                      \E k \in 1..Len(metrics_report.results) :
                          metrics_report.results[k] = r

\* A finished run whose samples were 2, NaN and -3 reported max 2 and
\* min -3.
C15_Witness ==
    /\ pc = "done"
    /\ Len(workers) = 1
    /\ workers[1].metrics = <<F64(2), NaN, F64(-3)>>
    /\ Len(metrics_report.results) = 1
    /\ metrics_report.results[1].max = F64(2)
    /\ metrics_report.results[1].min = F64(-3)

\* A common denominator of the samples of a vector without NaN, the samples
\* as integers over that denominator, and the sum of a vector of integers.
RECURSIVE CommonDen(_)
CommonDen(ms) == IF ms = <<>> THEN 1 ELSE Head(ms).d * CommonDen(Tail(ms))

Scaled(ms) == [k \in 1..Len(ms) |-> ms[k].n * (CommonDen(ms) \div ms[k].d)]

RECURSIVE SumInt(_)
SumInt(xs) == IF xs = <<>> THEN 0 ELSE Head(xs) + SumInt(Tail(xs))

\* C16: mean and std_deviation.  For every non-empty sample sequence the
\* reported mean m is the arithmetic average (m * N = sum of the samples)
\* and the reported std_dev s is the population standard deviation: s >= 0
\* and s^2 = (sum of (x - m)^2) / N, stated here as
\* s^2 * N^2 = N * (sum of x^2) - (sum of x)^2.  A NaN sample makes both
\* NaN.  On an empty sequence both return no value (and the unwrap() in
\* run() panics).
C16_MeanAndStdDev ==
    \A i \in Positions :
        LET w  == workers[i]
            ms == w.metrics
            N  == Len(ms)
            r  == w.output.result
            D  == CommonDen(ms)
            X  == Scaled(ms)
            S  == SumInt(X)
            Q  == SumInt([k \in 1..N |-> X[k] * X[k]])
            V  == N * Q - S * S
        IN  /\ N = 0 => /\ mean(ms) = None
                        /\ std_deviation(ms) = None
                        /\ w.output.tag # "Ok"
                        /\ w.wpc \in {"send", "exit"} =>
                              w.output = Err("TestFailed") /\ w.panicked = "unwrap"
            /\ w.output.tag = "Ok" =>
                  /\ N >= 1
                  /\ IF \E k \in 1..N : IsNaN(ms[k])
                     THEN IsNaN(r.mean) /\ IsNaN(r.std_dev)
                     ELSE /\ r.mean.k = "num"
                          /\ r.mean.n * (D * N) = S * r.mean.d
                          /\ r.std_dev.k \in {"num", "sqrt"}
                          /\ r.std_dev.n >= 0 /\ r.std_dev.d > 0
                          /\ IF r.std_dev.k = "num"
                             THEN r.std_dev.n * r.std_dev.n * (N * N * D * D)
                                      = V * r.std_dev.d * r.std_dev.d
                             ELSE r.std_dev.n * (N * N * D * D) = V * r.std_dev.d

\* A finished run whose samples were 2, 5 and 1/2 reported the mean 5/2 and
\* the standard deviation sqrt(7/2).
C16_Witness ==
    /\ pc = "done"
    /\ Len(workers) = 1
    /\ workers[1].metrics = <<F64(2), F64(5), Rat(1, 2)>>
    /\ Len(metrics_report.results) = 1
    /\ metrics_report.results[1].mean = Rat(5, 2)
    /\ metrics_report.results[1].std_dev = [k |-> "sqrt", n |-> 7, d |-> 2]

\* The result expected of a descriptor whose probe always returns c.
ConstantOf(d) == IF d.func_ptr = "const5" THEN 5 ELSE 10

Expected(d) ==
    [name |-> d.name,
     mean    |-> [k |-> "num", n |-> ConstantOf(d), d |-> 1],
     std_dev |-> [k |-> "num", n |-> 0, d |-> 1],
     max     |-> [k |-> "num", n |-> ConstantOf(d), d |-> 1],
     min     |-> [k |-> "num", n |-> ConstantOf(d), d |-> 1]]

Recorded == { metrics_report.results[k] : k \in 1..Len(metrics_report.results) }

C18_TimeoutOnlyAtDeadline ==
    \A i \in Positions :
        outcome[i] = "TestTimeout" =>
            /\ test_timeout = calc_timeout(iterated[i])
            /\ clock = test_timeout
            /\ workers[i].sent # "queued"

\* C19: each descriptor is executed at most once per run and appears at
\* most once in the report.  In every reachable state: the iterator has
\* yielded no name twice; the names in the result list are pairwise
\* distinct; each is the name of a registered descriptor that was yielded,
\* whose name holds the filter and whose executor returned Ok; and the
\* number of results does not exceed the number of descriptors started (one
\* worker thread each).
C19_AtMostOnce ==
    LET results == metrics_report.results
        started == { i \in Positions : outcome[i] # "Skipped" }
    IN  /\ \A i, j \in Positions : i # j => iterated[i].name # iterated[j].name
        /\ \A k, l \in 1..Len(results) : k # l => results[k].name # results[l].name
        /\ \A k \in 1..Len(results) :
              \E i \in Positions :
                  /\ iterated[i] \in TEST_LIST
                  /\ iterated[i].name = results[k].name
                  /\ Substring(test_filter, iterated[i].name)
                  /\ outcome[i] = "Ok"
        /\ Len(results) <= Cardinality(started)
        /\ started = { i \in Positions : workers[i].wpc # "none" }

\* A finished run with the filter "a" over descriptors named "a" and "b":
\* one was skipped, the other was run once and is in the report once.
C19_Witness ==
    /\ pc = "done"
    /\ test_filter = <<"a">>
    /\ Len(iterated) = 2
    /\ { iterated[1].name, iterated[2].name } = { <<"a">>, <<"b">> }
    /\ Len(metrics_report.results) = 1
    /\ metrics_report.results[1].name = <<"a">>
    /\ \E i \in Positions : outcome[i] = "Ok" /\ Len(workers[i].calls) >= 1

\* C20: filtered-out descriptors are inert.  A yielded descriptor whose
\* name does not hold the filter string gets no worker thread and no
\* channel, and its probe is never invoked; the step that skips it leaves
\* the report, the output, the other descriptors and the deadline untouched
\* and leaves the driver in the loop (it does not abort the run).
C20_FilteredOutInert ==
    /\ [](\A i \in Positions :
            ~Substring(test_filter, iterated[i].name) =>
                /\ outcome[i] = "Skipped"
                /\ workers[i] = NoWorker
                /\ workers[i].calls = <<>>
                /\ channels[i] = NoChannel)
    /\ [][ (/\ Len(iterated') = Len(iterated) + 1
            /\ ~Substring(test_filter, iterated'[Len(iterated')].name)) =>
               /\ pc = "loop" /\ pc' = "loop"
               /\ metrics_report' = metrics_report
               /\ emitted' = emitted
               /\ test_timeout' = test_timeout /\ clock' = clock
               /\ Aborted' = Aborted
               /\ \A j \in Positions :
                     /\ outcome'[j] = outcome[j]
                     /\ workers'[j] = workers[j]
                     /\ channels'[j] = channels[j] ]_vars

\* A finished run that skipped a descriptor and then ran and recorded a
\* later one.
C20_Witness ==
    /\ pc = "done"
    /\ Len(iterated) = 2
    /\ ~Substring(test_filter, iterated[1].name)
    /\ outcome = <<"Skipped", "Ok">>
    /\ workers[1].calls = <<>>
    /\ Len(metrics_report.results) = 1
    /\ metrics_report.results[1].name = iterated[2].name

====
